---- MODULE Spec2Model ----
(***************************************************************************)
(* LunarCrush -> Google Sheets updater (src/v1.py): the sequential run     *)
(* loop, the header (schema) reconciliation and the per-ticker row upsert, *)
(* against a model of the worksheet the gspread calls read and write.      *)
(*                                                                         *)
(* Abstractions, all stated where they are made:                           *)
(*  - REQUIRED_FIXED_HEADERS (56 names) and METRIC_TRENDS_KEYS (15 names)  *)
(*    are cut to two and one representative names;                         *)
(*  - a JSON value is a record [t, s]: its type tag and its textual form;  *)
(*  - a store call (ws.update, ws.col_values, ws.row_values) either takes  *)
(*    effect and returns, or raises and has no effect.                     *)
(***************************************************************************)
EXTENDS Integers, Sequences, FiniteSets, TLC

VARIABLES
    pc,                          \* main/run_once position: "start" | "loop" | "sleep",
                                 \* or "exited" when an exception has left main
    runs,                        \* number of run_once calls started by main
    fails,                       \* number of store calls that have raised
    sheet_row2,                  \* data sheet row 2: <<A2 token, B2 timestamp>>
    sheet_header,                \* data sheet row 3, as ws.row_values(3) returns it
    sheet_rows,                  \* data sheet rows 4.. : sheet_rows[i] is row i + 3
    change_interval_keys_local,  \* the module-level global of that name
    token,                       \* run_once local: the captured token
    tickers,                     \* run_once local: the ticker list of this run
    headers,                     \* run_once local: the header list in use
    idx,                         \* run_once local: enumerate index of the loop
    last,                        \* history: what the last step did
    rec                          \* the harness of the function specifications

vars == <<pc, runs, fails, sheet_row2, sheet_header, sheet_rows,
          change_interval_keys_local, token, tickers, headers, idx, last, rec>>

(***************************************************************************)
(* Bounds of the model.                                                    *)
(***************************************************************************)
MaxRuns == 2
MaxFail == 2

(***************************************************************************)
(* Program constants.                                                      *)
(***************************************************************************)
MAX_CELL_LENGTH == 50000
START_ROW == 4

\* Stands for a text of MAX_CELL_LENGTH + 1 characters.
BigStr == "<text of 50001 characters>"

REQUIRED_FIXED_HEADERS == <<"ticker", "asset_price">>
METRIC_TRENDS_KEYS == <<"close">>

(***************************************************************************)
(* Sequence helpers.                                                       *)
(***************************************************************************)
Max(a, b) == IF a >= b THEN a ELSE b

Range(s) == {s[i] : i \in DOMAIN s}

IsPrefix(s, t) == Len(s) <= Len(t) /\ \A i \in 1..Len(s) : s[i] = t[i]

NoDup(s) == \A i, j \in DOMAIN s : s[i] = s[j] => i = j

\* [f(x) for x in s if x not in t], order kept
RECURSIVE NotIn(_, _)
NotIn(s, t) ==
    IF s = <<>> THEN <<>>
    ELSE (IF Head(s) \in Range(t) THEN <<>> ELSE <<Head(s)>>) \o NotIn(Tail(s), t)

\* a sequence without its trailing empty strings
RECURSIVE TrimTrailing(_)
TrimTrailing(s) ==
    IF s = <<>> THEN <<>>
    ELSE IF s[Len(s)] = "" THEN TrimTrailing(SubSeq(s, 1, Len(s) - 1))
    ELSE s

(***************************************************************************)
(* Strings: str.strip() and str.lower() on the strings of the model.       *)
(***************************************************************************)
Strip(s) ==
    CASE s = " "    -> ""
      [] s = "ETH " -> "ETH"
      [] OTHER      -> s

Lower(s) ==
    CASE s = "BTC"  -> "btc"
      [] s = "ETH"  -> "eth"
      [] s = "ETH " -> "eth "
      [] s = "SOL"  -> "sol"
      [] OTHER      -> s

StrLen(s) == IF s = BigStr THEN MAX_CELL_LENGTH + 1 ELSE Len(s)

(***************************************************************************)
(* JSON values: [t |-> type tag, s |-> str(value) or json.dumps(value)].   *)
(***************************************************************************)
None == [t |-> "none", s |-> "None"]
Str(s) == [t |-> "str", s |-> s]
Num(s) == [t |-> "num", s |-> s]
Obj(s) == [t |-> "dict", s |-> s]

safe_str(value) ==
    IF value.t = "none" THEN ""
    ELSE IF value.t \in {"str", "num", "bool"} THEN value.s
    ELSE value.s

is_too_large(s) == StrLen(s) > MAX_CELL_LENGTH

Bool(s) == [t |-> "bool", s |-> s]

\* isinstance(v, (int, float, str, bool))
IsScalar(v) == v.t \in {"num", "str", "bool"}

\* the text json.dumps gives for a value inside a container
JsonText(v) ==
    CASE v.t = "none" -> "null"
      [] v.t = "str"  -> "\"" \o v.s \o "\""
      [] v.t = "bool" -> (IF v.s = "True" THEN "true" ELSE "false")
      [] OTHER        -> v.s

RECURSIVE JoinEntries(_)
JoinEntries(e) ==
    IF e = <<>> THEN ""
    ELSE "\"" \o Head(e).k \o "\": " \o JsonText(Head(e).v)
         \o (IF Tail(e) = <<>> THEN "" ELSE ", " \o JoinEntries(Tail(e)))

RECURSIVE JoinItems(_)
JoinItems(e) ==
    IF e = <<>> THEN ""
    ELSE JsonText(Head(e)) \o (IF Tail(e) = <<>> THEN "" ELSE ", " \o JoinItems(Tail(e)))

\* a JSON object with its entries e (records [k, v]) in iteration order, and
\* a JSON array with its items e; s is the json.dumps text
Dict(e) == [t |-> "dict", s |-> "{" \o JoinEntries(e) \o "}", e |-> e]
List(e) == [t |-> "list", s |-> "[" \o JoinItems(e) \o "]", e |-> e]

\* the first entry of e under key k, as a set of indices (empty: k not in e)
KeyAt(e, k) == {n \in DOMAIN e : e[n].k = k}

\* dict.get(k) on the entries of a JSON object
EntryGet(e, k) == IF KeyAt(e, k) = {} THEN None ELSE e[CHOOSE n \in KeyAt(e, k) : TRUE].v

CONVENTIONAL_KEYS == <<"value", "current", "count", "latest", "v", "val">>

pick_scalar_from_metric_obj(metric_obj) ==
    IF metric_obj.t = "none" THEN None
    ELSE IF IsScalar(metric_obj) THEN metric_obj
    ELSE IF metric_obj.t = "dict"
    THEN LET e == metric_obj.e
             conv == {i \in DOMAIN CONVENTIONAL_KEYS :
                         \E n \in KeyAt(e, CONVENTIONAL_KEYS[i]) : IsScalar(e[n].v)}
             scal == {n \in DOMAIN e : IsScalar(e[n].v)}
         IN  IF conv # {}
             THEN EntryGet(e, CONVENTIONAL_KEYS[CHOOSE i \in conv : \A m \in conv : i <= m])
             ELSE IF scal # {}
             THEN e[CHOOSE n \in scal : \A m \in scal : n <= m].v
             ELSE Str(metric_obj.s)
    ELSE IF metric_obj.t = "list" /\ metric_obj.e # <<>>
    THEN IF IsScalar(metric_obj.e[1]) THEN metric_obj.e[1] ELSE Str(metric_obj.s)
    ELSE None

\* dict.get(k, default) on a function whose domain is a set of strings
Get(m, k, default) == IF k \in DOMAIN m THEN m[k] ELSE default

(***************************************************************************)
(* Documents: what fetch_ticker_json returns for a ticker.                 *)
(*   shape        "dict", or "list" for a JSON body that is no object      *)
(*   asset_price  data.asset.price                                         *)
(*   mt_close     the value build_values_map_for_ticker derives for        *)
(*                metric_trends_close                                      *)
(*   ci           data.change_intervals, its entries in key order          *)
(*   dump         json.dumps of the whole document                         *)
(***************************************************************************)
Docs ==
    { [shape |-> "dict", asset_price |-> Num("3000"), mt_close |-> Num("7"),
       ci |-> <<[k |-> "1h", v |-> Num("1")]>>, dump |-> "{doc0}"],
      [shape |-> "dict", asset_price |-> Obj(BigStr), mt_close |-> None,
       ci |-> <<[k |-> "1d", v |-> Num("2")]>>, dump |-> BigStr],
      [shape |-> "list", asset_price |-> None, mt_close |-> None,
       ci |-> <<>>, dump |-> "[]"] }

\* dict.get(k) on the entries of a JSON object
RECURSIVE CiGet(_, _)
CiGet(ci, k) ==
    IF ci = <<>> THEN None
    ELSE IF Head(ci).k = k THEN Head(ci).v
    ELSE CiGet(Tail(ci), k)

CiHeader(k) == "change_intervals_" \o k
MtHeader(k) == "metric_trends_" \o k

MapSeq(s, Op(_)) == [i \in DOMAIN s |-> Op(s[i])]

gather_change_interval_keys_from_json(j) ==
    IF j.shape # "dict" THEN <<>>
    ELSE [i \in DOMAIN j.ci |-> j.ci[i].k]

\* The builder raises on a document that is no object (j.get at line 389).
BuildRaises(j) == j.shape # "dict"

\* g: the value of the global change_interval_keys_local at the call. The
\* change_intervals_ columns are built from it, not from the parameter
\* (line 444).
build_values_map_for_ticker(j, change_interval_keys, g) ==
    LET dom == {"asset_price"}
               \cup {MtHeader(METRIC_TRENDS_KEYS[i]) : i \in DOMAIN METRIC_TRENDS_KEYS}
               \cup {CiHeader(g[i]) : i \in DOMAIN g}
    IN  [h \in dom |->
            IF h = "asset_price" THEN j.asset_price
            ELSE IF h = MtHeader("close") THEN j.mt_close
            ELSE LET n == CHOOSE n \in DOMAIN g : CiHeader(g[n]) = h
                 IN  CiGet(j.ci, g[n])]

(***************************************************************************)
(* The metric_trends part of the builder (lines 424-440) on a document     *)
(* given by the places the builder looks at:                               *)
(*   root_mt  j["metric_trends"]                                           *)
(*   data_mt  j["data"]["metric_trends"]                                   *)
(*   deep_mt  the metric_trends entry below data.topic, the only other     *)
(*            place the documents of the model have one                    *)
(*   ci       j["data"]["change_intervals"]                                *)
(* None stands for a key that is not there.                                *)
(***************************************************************************)
\* bool(v)
Truthy(v) ==
    CASE v.t = "none"           -> FALSE
      [] v.t \in {"dict", "list"} -> v.e # <<>>
      [] v.t = "str"            -> v.s # ""
      [] v.t = "num"            -> v.s # "0"
      [] OTHER                  -> v.s = "True"

\* find_first_key_recursive(j, "metric_trends"): the root's own entry when
\* the key is there, else the first entry met going down the values
find_first_key_recursive(x) ==
    IF x.root_mt # None THEN x.root_mt
    ELSE IF x.data_mt # None THEN x.data_mt
    ELSE x.deep_mt

metric_trends_value(x, k) ==
    LET mt0 == IF Truthy(x.root_mt) THEN x.root_mt ELSE x.data_mt
        mt == IF mt0 = None THEN find_first_key_recursive(x) ELSE mt0
    IN  IF mt.t = "dict"
        THEN pick_scalar_from_metric_obj(EntryGet(mt.e, k))
        ELSE IF x.ci = None THEN None
        ELSE IF x.ci.t = "dict" THEN EntryGet(x.ci.e, k)
        ELSE None

\* the document as a JSON value, for json.dumps
DocValue(x) ==
    LET opt(k, v) == IF v = None THEN <<>> ELSE <<[k |-> k, v |-> v]>>
        topic == IF x.deep_mt = None THEN None
                 ELSE Dict(<<[k |-> "metric_trends", v |-> x.deep_mt]>>)
        data == Dict(opt("metric_trends", x.data_mt) \o opt("change_intervals", x.ci)
                     \o opt("topic", topic))
    IN  Dict(opt("metric_trends", x.root_mt) \o <<[k |-> "data", v |-> data]>>)

\* the document in the form the rest of the model takes
MakeDoc(x) ==
    [shape |-> "dict", asset_price |-> None,
     mt_close |-> metric_trends_value(x, "close"),
     ci |-> IF x.ci # None /\ x.ci.t = "dict" THEN x.ci.e ELSE <<>>,
     dump |-> DocValue(x).s]

\* a variant in which the values of an earlier ticker stay in the map
EmptyMap_stale == [h \in {"asset_price"} |-> Num("3000")]

EmptyMap == [h \in {} |-> None]

\* values_map[k] = v
MapSet(m, k, v) == [h \in DOMAIN m \cup {k} |-> IF h = k THEN v ELSE m[h]]

(***************************************************************************)
(* The worksheet.                                                          *)
(***************************************************************************)
CellA(row) == IF row = <<>> THEN "" ELSE row[1]

\* ws.col_values(1): column A from row 1 to its last non-empty cell
col_values_1(row2, shdr, rows) ==
    TrimTrailing(<<"", row2[1], CellA(shdr)>> \o [i \in DOMAIN rows |-> CellA(rows[i])])

\* ws.update(values=[cells], range_name="A<r>:<col><r>") on one row: the
\* cells of the range are overwritten, the cells right of it are kept
UpdateRange(row, cells) ==
    [i \in 1..Max(Len(row), Len(cells)) |->
        IF i <= Len(cells) THEN cells[i] ELSE row[i]]

\* the same on data row r (a sheet row number, START_ROW or more)
UpdateDataRow(rows, r, cells) ==
    [i \in 1..Max(Len(rows), r - 3) |->
        IF i = r - 3 THEN UpdateRange(IF i <= Len(rows) THEN rows[i] ELSE <<>>, cells)
        ELSE rows[i]]

(***************************************************************************)
(* Schema registry.                                                        *)
(***************************************************************************)
\* a variant that appends the candidates without filtering them
append_new_headers_unfiltered(shdr, current_headers, new_headers, f) ==
    LET updated == current_headers \o new_headers
    IN  IF new_headers = <<>>
        THEN [headers |-> current_headers, sheet_header |-> shdr,
              wrote |-> FALSE, raised |-> FALSE]
        ELSE IF f
        THEN [headers |-> current_headers, sheet_header |-> shdr,
              wrote |-> FALSE, raised |-> TRUE]
        ELSE [headers |-> updated, sheet_header |-> UpdateRange(shdr, updated),
              wrote |-> TRUE, raised |-> FALSE]

\* f: the ws.update call raises
append_new_headers(shdr, current_headers, new_headers, f) ==
    LET missing == NotIn(new_headers, current_headers)
        updated == current_headers \o missing
    IN  IF missing = <<>>
        THEN [headers |-> current_headers, sheet_header |-> shdr,
              wrote |-> FALSE, raised |-> FALSE]
        ELSE IF f
        THEN [headers |-> current_headers, sheet_header |-> shdr,
              wrote |-> FALSE, raised |-> TRUE]
        ELSE [headers |-> updated, sheet_header |-> UpdateRange(shdr, updated),
              wrote |-> TRUE, raised |-> FALSE]

InitialHeaders ==
    REQUIRED_FIXED_HEADERS \o MapSeq(METRIC_TRENDS_KEYS, MtHeader) \o <<"raw_json">>

(***************************************************************************)
(* Row reconciler.                                                         *)
(***************************************************************************)
\* a variant whose enumerate starts one too high
find_row_for_ticker_off_by_one(col_a, ticker, start_row, f) ==
    LET hits == {i \in start_row..Len(col_a) :
                    Lower(Strip(col_a[i])) = Lower(Strip(ticker))}
    IN  IF f \/ hits = {} THEN 0
        ELSE (CHOOSE i \in hits : \A k \in hits : i <= k) + 1

\* f: ws.col_values raises, which the function turns into None (0 here)
find_row_for_ticker(col_a, ticker, start_row, f) ==
    LET hits == {i \in start_row..Len(col_a) :
                    Lower(Strip(col_a[i])) = Lower(Strip(ticker))}
    IN  IF f \/ hits = {} THEN 0
        ELSE CHOOSE i \in hits : \A k \in hits : i <= k

\* a variant that forgets the + 1
append_row_idx_no_plus_one(col_a) == Max(4, Len(col_a))

append_row_idx(col_a) == Max(4, Len(col_a) + 1)

\* a variant that writes an oversize text as it is
write_row_by_header_order_unchecked(hdrs, values_map) ==
    [i \in DOMAIN hdrs |->
        IF hdrs[i] = "ticker" THEN Get(values_map, "ticker", Str("")).s
        ELSE safe_str(Get(values_map, hdrs[i], Str("")))]

\* the row write_row_by_header_order builds
write_row_by_header_order(hdrs, values_map) ==
    [i \in DOMAIN hdrs |->
        IF hdrs[i] = "ticker" THEN Get(values_map, "ticker", Str("")).s
        ELSE LET s == safe_str(Get(values_map, hdrs[i], Str("")))
             IN  IF is_too_large(s) THEN "" ELSE s]

\* the row the append path builds (lines 581-588, and 602 in the fallback)
row_vals(hdrs, values_map) ==
    [i \in DOMAIN hdrs |->
        LET s == safe_str(Get(values_map, hdrs[i], Str("")))
        IN  IF is_too_large(s) THEN "" ELSE s]

\* [t] + [""] * (len(headers) - 1)
minimal_row(hdrs, t) == <<t>> \o [i \in 1..(Len(hdrs) - 1) |-> ""]

(***************************************************************************)
(* run_once, per ticker. fl names the store calls that raise:              *)
(*   hdr1, hdr2  the ws.update of the first and second append_new_headers  *)
(*   find        ws.col_values in find_row_for_ticker                      *)
(*   col1, w1    ws.col_values and ws.update of the first write            *)
(*   col2, w2    ws.col_values and ws.update of the fallback write         *)
(***************************************************************************)
Flags == [hdr1 : BOOLEAN, hdr2 : BOOLEAN, find : BOOLEAN,
          col1 : BOOLEAN, w1 : BOOLEAN, col2 : BOOLEAN, w2 : BOOLEAN]

B2N(b) == IF b THEN 1 ELSE 0

FlagCount(fl) == B2N(fl.hdr1) + B2N(fl.hdr2) + B2N(fl.find) + B2N(fl.col1)
                 + B2N(fl.w1) + B2N(fl.col2) + B2N(fl.w2)

\* a variant that extends the key list by every key of the document
discover_headers_unfiltered(keys, hdrs, shdr, j, fl) ==
    LET new_ci_keys == gather_change_interval_keys_from_json(j)
        new_to_add == NotIn(new_ci_keys, keys)
        needed_metric_headers == NotIn(MapSeq(METRIC_TRENDS_KEYS, MtHeader), hdrs)
        cand == IF new_to_add # <<>>
                THEN needed_metric_headers \o MapSeq(new_to_add, CiHeader)
                ELSE needed_metric_headers
        a1 == append_new_headers(shdr, hdrs, cand, fl.hdr1)
        a2 == IF ~a1.raised /\ "raw_json" \notin Range(a1.headers)
              THEN append_new_headers(a1.sheet_header, a1.headers, <<"raw_json">>, fl.hdr2)
              ELSE [a1 EXCEPT !.wrote = FALSE]
    IN  [keys |-> keys \o new_ci_keys,
         headers |-> a2.headers,
         sheet_header |-> a2.sheet_header,
         raised |-> a1.raised \/ a2.raised,
         calls |-> B2N(cand # <<>>) + B2N(~a1.raised /\ "raw_json" \notin Range(a1.headers)),
         used |-> B2N(a1.raised) + B2N(a2.raised /\ ~a1.raised)]

\* lines 539-560: learn the change-interval keys, extend the header
discover_headers(keys, hdrs, shdr, j, fl) ==
    LET new_ci_keys == gather_change_interval_keys_from_json(j)
        new_to_add == NotIn(new_ci_keys, keys)
        needed_metric_headers == NotIn(MapSeq(METRIC_TRENDS_KEYS, MtHeader), hdrs)
        cand == IF new_to_add # <<>>
                THEN needed_metric_headers \o MapSeq(new_to_add, CiHeader)
                ELSE needed_metric_headers
        a1 == append_new_headers(shdr, hdrs, cand, fl.hdr1)
        a2 == IF ~a1.raised /\ "raw_json" \notin Range(a1.headers)
              THEN append_new_headers(a1.sheet_header, a1.headers, <<"raw_json">>, fl.hdr2)
              ELSE [a1 EXCEPT !.wrote = FALSE]
    IN  [keys |-> keys \o new_to_add,
         headers |-> a2.headers,
         sheet_header |-> a2.sheet_header,
         raised |-> a1.raised \/ a2.raised,
         calls |-> B2N(cand # <<>>) + B2N(~a1.raised /\ "raw_json" \notin Range(a1.headers)),
         used |-> B2N(a1.raised) + B2N(a2.raised /\ ~a1.raised)]

Attempt(kind, row, cells, ok) == [kind |-> kind, row |-> row, cells |-> cells, ok |-> ok]

\* lines 572-592: the first write. col_a is what ws.col_values(1) returns.
first_write(rows, col_a, hdrs, values_map, row_idx, fcol, fw) ==
    IF row_idx # 0
    THEN LET cells == write_row_by_header_order(hdrs, values_map)
         IN  [atts |-> <<Attempt("update", row_idx, cells, ~fw)>>,
              ok |-> ~fw,
              rows |-> IF fw THEN rows ELSE UpdateDataRow(rows, row_idx, cells),
              used |-> B2N(fw)]
    ELSE IF fcol
    THEN [atts |-> <<>>, ok |-> FALSE, rows |-> rows, used |-> 1]
    ELSE LET r == append_row_idx(col_a)
             cells == row_vals(hdrs, values_map)
         IN  [atts |-> <<Attempt("append", r, cells, ~fw)>>,
              ok |-> ~fw,
              rows |-> IF fw THEN rows ELSE UpdateDataRow(rows, r, cells),
              used |-> B2N(fw)]

\* a variant that retries with the ticker alone
fallback_write_reduced(rows, col_a, hdrs, values_map, j, row_idx, fcol, fw) ==
    LET cells == minimal_row(hdrs, values_map["ticker"].s)
        r == IF row_idx # 0 THEN row_idx ELSE append_row_idx(col_a)
    IN  IF row_idx = 0 /\ fcol
        THEN [atts |-> <<>>, ok |-> FALSE, rows |-> rows, used |-> 1]
        ELSE [atts |-> <<Attempt(IF row_idx # 0 THEN "fallback_update"
                                 ELSE "fallback_append", r, cells, ~fw)>>,
              ok |-> ~fw,
              rows |-> IF fw THEN rows ELSE UpdateDataRow(rows, r, cells),
              used |-> B2N(fw)]

\* lines 595-607: the raw_json fallback
fallback_write(rows, col_a, hdrs, values_map, j, row_idx, fcol, fw) ==
    LET dump == j.dump
        vm == MapSet(values_map, "raw_json",
                     Str(IF ~is_too_large(dump) THEN dump ELSE ""))
    IN  IF row_idx # 0
        THEN LET cells == write_row_by_header_order(hdrs, vm)
             IN  [atts |-> <<Attempt("fallback_update", row_idx, cells, ~fw)>>,
                  ok |-> ~fw,
                  rows |-> IF fw THEN rows ELSE UpdateDataRow(rows, row_idx, cells),
                  used |-> B2N(fw)]
        ELSE IF fcol
        THEN [atts |-> <<>>, ok |-> FALSE, rows |-> rows, used |-> 1]
        ELSE LET r == append_row_idx(col_a)
                 cells == row_vals(hdrs, vm)
             IN  [atts |-> <<Attempt("fallback_append", r, cells, ~fw)>>,
                  ok |-> ~fw,
                  rows |-> IF fw THEN rows ELSE UpdateDataRow(rows, r, cells),
                  used |-> B2N(fw)]

\* a variant that tries the fallback a second time when it fails
write_ticker_row_retrying(row2, shdr, rows, hdrs, values_map, j, t, fl) ==
    LET col_a == col_values_1(row2, shdr, rows)
        row_idx == find_row_for_ticker(col_a, t, START_ROW, fl.find)
        w1 == first_write(rows, col_a, hdrs, values_map, row_idx, fl.col1, fl.w1)
        w2 == fallback_write(rows, col_a, hdrs, values_map, j, row_idx, fl.col2, fl.w2)
        w3 == fallback_write(rows, col_a, hdrs, values_map, j, row_idx, FALSE, FALSE)
    IN  IF w1.ok
        THEN [row_idx |-> row_idx, atts |-> w1.atts, rows |-> w1.rows,
              outcome |-> "WRITTEN", log |-> {},
              used |-> B2N(fl.find) + w1.used]
        ELSE IF w2.ok
        THEN [row_idx |-> row_idx, atts |-> w1.atts \o w2.atts, rows |-> w2.rows,
              outcome |-> "WRITTEN_WITH_FALLBACK", log |-> {"write_failed"},
              used |-> B2N(fl.find) + w1.used + w2.used]
        ELSE [row_idx |-> row_idx, atts |-> w1.atts \o w2.atts \o w3.atts,
              rows |-> w3.rows, outcome |-> "WRITTEN_WITH_FALLBACK",
              log |-> {"write_failed", "fallback_failed"},
              used |-> B2N(fl.find) + w1.used + w2.used]

\* lines 570-607: locate the row, write it, fall back once
write_ticker_row(row2, shdr, rows, hdrs, values_map, j, t, fl) ==
    LET col_a == col_values_1(row2, shdr, rows)
        row_idx == find_row_for_ticker(col_a, t, START_ROW, fl.find)
        w1 == first_write(rows, col_a, hdrs, values_map, row_idx, fl.col1, fl.w1)
        w2 == fallback_write(rows, col_a, hdrs, values_map, j, row_idx, fl.col2, fl.w2)
    IN  IF w1.ok
        THEN [row_idx |-> row_idx, atts |-> w1.atts, rows |-> w1.rows,
              outcome |-> "WRITTEN", log |-> {},
              used |-> B2N(fl.find) + w1.used]
        ELSE [row_idx |-> row_idx, atts |-> w1.atts \o w2.atts, rows |-> w2.rows,
              outcome |-> IF w2.ok THEN "WRITTEN_WITH_FALLBACK" ELSE "FAILED",
              log |-> {"write_failed"} \cup (IF w2.ok THEN {} ELSE {"fallback_failed"}),
              used |-> B2N(fl.find) + w1.used + w2.used]

(***************************************************************************)
(* Inputs of the model.                                                    *)
(***************************************************************************)
Tokens == {"tokA"}

\* column A of the Tickers sheet, as ticker_ws.col_values(1) returns it
RawTickerColumns ==
    { <<"Tickers">>,
      <<"Tickers", "btc", " ", "ETH ">> }

\* row 3 of the data sheet before the first run
InitSheetHeaders ==
    { <<>>,
      InitialHeaders \o <<CiHeader("1h")>>,
      <<"ticker", "note", "volume", "price_usd", "raw_json">> }

\* rows 4.. of the data sheet before the first run
InitSheetRows ==
    { <<>>,
      << <<"BTC", "60000">>, <<>>, <<"SOL", "150">> >> }

NoDoc == [shape |-> "none", asset_price |-> None, mt_close |-> None,
          ci |-> <<>>, dump |-> ""]

Last(op, ticker, doc, row_idx, atts, outcome, log, calls) ==
    [op |-> op, ticker |-> ticker, doc |-> doc, row_idx |-> row_idx,
     atts |-> atts, outcome |-> outcome, log |-> log, calls |-> calls]

NoResult == [headers |-> <<>>, sheet_header |-> <<>>, wrote |-> FALSE, raised |-> FALSE]

Rec(phase, cand, r1, r2) == [phase |-> phase, cand |-> cand, r1 |-> r1, r2 |-> r2]

RecOff == Rec("off", <<>>, NoResult, NoResult)

Init ==
    /\ pc = "start"
    /\ runs = 1
    /\ fails = 0
    /\ sheet_row2 = <<"", 0>>
    /\ sheet_header \in InitSheetHeaders
    /\ sheet_rows \in InitSheetRows
    /\ change_interval_keys_local = <<>>
    /\ token = ""
    /\ tickers = <<>>
    /\ headers = <<>>
    /\ idx = 0
    /\ last = Last("init", "", NoDoc, 0, <<>>, "", {}, 0)
    /\ rec = RecOff

\* run_once returns, or an exception leaves it: its locals are gone
LeaveRun(outcome, log) ==
    /\ pc' = "sleep"
    /\ token' = ""
    /\ tickers' = <<>>
    /\ headers' = <<>>
    /\ idx' = 0
    /\ last' = Last("leave", "", NoDoc, 0, <<>>, outcome, log, 0)

(***************************************************************************)
(* run_once, lines 458-519.                                                *)
(***************************************************************************)
\* a variant that writes the (empty) token to A2 before it gives up
RunNoToken_after_token_write ==
    /\ pc = "start"
    /\ LeaveRun("no_token", {"token_failed"})
    /\ sheet_row2' = <<"", runs>>
    /\ UNCHANGED <<rec, runs, fails, sheet_header, sheet_rows,
                   change_interval_keys_local>>

\* lines 461-464: no token captured
RunNoToken ==
    /\ pc = "start"
    /\ LeaveRun("no_token", {"token_failed"})
    /\ UNCHANGED <<rec, runs, fails, sheet_row2, sheet_header, sheet_rows,
                   change_interval_keys_local>>

\* lines 466-482: the workbook or one of its worksheets cannot be opened
RunOpenFails ==
    /\ pc = "start"
    /\ fails < MaxFail
    /\ fails' = fails + 1
    /\ LeaveRun("open_failed", {"open_failed"})
    /\ UNCHANGED <<rec, runs, sheet_row2, sheet_header, sheet_rows,
                   change_interval_keys_local>>

\* lines 493-497: tickers = [t.strip() for t in raw_tickers[1:] if t.strip()]
RECURSIVE StripNonEmpty(_)
StripNonEmpty(s) ==
    IF s = <<>> THEN <<>>
    ELSE (IF Strip(Head(s)) # "" THEN <<Strip(Head(s))>> ELSE <<>>)
         \o StripNonEmpty(Tail(s))

read_tickers(raw_tickers) == StripNonEmpty(Tail(raw_tickers))

\* lines 485-490: token to A2, then the timestamp to B2; w is the number of
\* the two ws.update calls that return before one raises
write_token(row2, tok, stamp, w) ==
    IF w = 0 THEN row2
    ELSE IF w = 1 THEN <<tok, row2[2]>>
    ELSE <<tok, stamp>>

\* lines 500-519: read the header row, create it or make sure of raw_json.
\* fread: ws.row_values raises (read_existing_headers returns []);
\* fwrite: the ws.update of the header row raises
setup_headers(shdr, fread, fwrite) ==
    LET existing_headers == IF fread THEN <<>> ELSE shdr
    IN  IF existing_headers = <<>>
        THEN IF fwrite
             THEN [headers |-> <<>>, sheet_header |-> shdr, result |-> "return",
                   calls |-> 0, used |-> B2N(fread) + 1]
             ELSE [headers |-> InitialHeaders,
                   sheet_header |-> UpdateRange(shdr, InitialHeaders),
                   result |-> "ok", calls |-> 0, used |-> B2N(fread)]
        ELSE IF "raw_json" \notin Range(existing_headers)
        THEN LET a == append_new_headers(shdr, existing_headers, <<"raw_json">>, fwrite)
             IN  [headers |-> a.headers, sheet_header |-> a.sheet_header,
                  result |-> IF a.raised THEN "raise" ELSE "ok",
                  calls |-> 1, used |-> B2N(a.raised)]
        ELSE [headers |-> existing_headers, sheet_header |-> shdr,
              result |-> "ok", calls |-> 0, used |-> 0]

\* lines 484-519 with a token and the worksheets at hand
RunBegin ==
    /\ pc = "start"
    /\ \E tok \in Tokens, w \in 0..2, raw \in RawTickerColumns,
          ftick \in BOOLEAN, fread \in BOOLEAN, fwrite \in BOOLEAN :
        LET ts == read_tickers(raw)
            h == setup_headers(sheet_header, fread, fwrite)
            used == B2N(w < 2) + (IF ftick THEN 1
                                  ELSE IF ts = <<>> THEN 0 ELSE h.used)
        IN  /\ fails + used <= MaxFail
            /\ fails' = fails + used
            /\ sheet_row2' = write_token(sheet_row2, tok, runs, w)
            /\ IF ftick
               THEN /\ LeaveRun("exception", {"unhandled"})
                    /\ UNCHANGED sheet_header
               ELSE IF ts = <<>>
               THEN /\ LeaveRun("no_tickers", {"no_tickers"})
                    /\ UNCHANGED sheet_header
               ELSE IF h.result = "ok"
               THEN /\ pc' = "loop"
                    /\ token' = tok
                    /\ tickers' = ts
                    /\ headers' = h.headers
                    /\ idx' = 1
                    /\ sheet_header' = h.sheet_header
                    /\ last' = Last("begin", "", NoDoc, 0, <<>>, "ok", {}, h.calls)
               ELSE /\ LeaveRun(IF h.result = "raise" THEN "exception" ELSE "no_headers",
                                {"headers_failed"})
                    /\ UNCHANGED sheet_header
    /\ UNCHANGED <<rec, runs, sheet_rows, change_interval_keys_local>>

(***************************************************************************)
(* run_once, lines 521-612: one iteration of the ticker loop.              *)
(***************************************************************************)
\* lines 525-537: fetch_ticker_json returned None
TickerUnfetched ==
    /\ pc = "loop"
    /\ idx <= Len(tickers)
    /\ \E ffind \in BOOLEAN, fcol \in BOOLEAN, fw \in BOOLEAN :
        LET t == tickers[idx]
            col_a == col_values_1(sheet_row2, sheet_header, sheet_rows)
            row_idx == find_row_for_ticker(col_a, t, START_ROW, ffind)
            r == append_row_idx(col_a)
            cells == minimal_row(headers, t)
            used == B2N(ffind) + (IF row_idx # 0 THEN 0
                                  ELSE IF fcol THEN 1 ELSE B2N(fw))
        IN  /\ fails + used <= MaxFail
            /\ fails' = fails + used
            /\ IF row_idx # 0
               THEN /\ sheet_rows' = sheet_rows
                    /\ idx' = idx + 1
                    /\ last' = Last("unfetched", t, NoDoc, row_idx, <<>>, "SKIPPED", {}, 0)
                    /\ UNCHANGED <<pc, token, tickers, headers>>
               ELSE IF fcol
               THEN /\ sheet_rows' = sheet_rows
                    /\ LeaveRun("exception", {"unhandled"})
               ELSE /\ sheet_rows' = IF fw THEN sheet_rows
                                     ELSE UpdateDataRow(sheet_rows, r, cells)
                    /\ idx' = idx + 1
                    /\ last' = Last("unfetched", t, NoDoc, 0,
                                    <<Attempt("minimal", r, cells, ~fw)>>,
                                    IF fw THEN "FAILED" ELSE "MINIMAL",
                                    IF fw THEN {"minimal_failed"} ELSE {}, 0)
                    /\ UNCHANGED <<pc, token, tickers, headers>>
    /\ UNCHANGED <<rec, runs, sheet_row2, sheet_header, change_interval_keys_local>>

\* lines 539-610: a document was fetched
TickerFetched ==
    /\ pc = "loop"
    /\ idx <= Len(tickers)
    /\ \E j \in Docs, fl \in {f \in Flags : fails + FlagCount(f) <= MaxFail} :
        LET t == tickers[idx]
            d == discover_headers(change_interval_keys_local, headers, sheet_header, j, fl)
            built == IF BuildRaises(j) THEN EmptyMap
                     ELSE build_values_map_for_ticker(j, d.keys, d.keys)
            values_map == MapSet(built, "ticker", Str(t))
            w == write_ticker_row(sheet_row2, d.sheet_header, sheet_rows, d.headers,
                                  values_map, j, t, fl)
            used == d.used + (IF d.raised THEN 0 ELSE w.used)
        IN  /\ used = FlagCount(fl)
            /\ fails' = fails + used
            /\ change_interval_keys_local' = d.keys
            /\ sheet_header' = d.sheet_header
            /\ IF d.raised
               THEN /\ sheet_rows' = sheet_rows
                    /\ LeaveRun("exception", {"headers_failed", "unhandled"})
               ELSE /\ sheet_rows' = w.rows
                    /\ headers' = d.headers
                    /\ idx' = idx + 1
                    /\ last' = Last("fetched", t, j, w.row_idx, w.atts, w.outcome,
                                    w.log \cup (IF BuildRaises(j) THEN {"build_failed"} ELSE {}),
                                    d.calls)
                    /\ UNCHANGED <<pc, token, tickers>>
    /\ UNCHANGED <<rec, runs, sheet_row2>>

\* line 612: the loop is over
RunComplete ==
    /\ pc = "loop"
    /\ idx > Len(tickers)
    /\ LeaveRun("complete", {})
    /\ UNCHANGED <<rec, runs, fails, sheet_row2, sheet_header, sheet_rows,
                   change_interval_keys_local>>

(***************************************************************************)
(* main, lines 615-622: log, sleep, run again.                             *)
(***************************************************************************)
Sleep ==
    /\ pc = "sleep"
    /\ runs < MaxRuns
    /\ pc' = "start"
    /\ runs' = runs + 1
    /\ last' = Last("sleep", "", NoDoc, 0, <<>>, "", {}, 0)
    /\ UNCHANGED <<rec, fails, sheet_row2, sheet_header, sheet_rows,
                   change_interval_keys_local, token, tickers, headers, idx>>

\* lines 619-621: run_once has returned or raised, and log_error (in the
\* handler) or log_event (after it) raises in its turn: open(LOGFILE, "a")
\* and f.write are inside no try, so the exception leaves main
MainLogRaises ==
    /\ pc = "sleep"
    /\ pc' = "exited"
    /\ UNCHANGED <<rec, runs, fails, sheet_row2, sheet_header, sheet_rows,
                   change_interval_keys_local, token, tickers, headers, idx, last>>

Next ==
    \/ RunNoToken
    \/ RunOpenFails
    \/ RunBegin
    \/ TickerUnfetched
    \/ TickerFetched
    \/ RunComplete
    \/ Sleep
    \/ MainLogRaises

Spec == Init /\ [][Next]_vars

(***************************************************************************)
(* append_new_headers on its own: a header, a candidate list, the call,    *)
(* and the call again on what the first call returned.                     *)
(***************************************************************************)
MaxHeaderLen == 2
MaxCandLen == 2

Names == {"ticker", "raw_json", "change_intervals_1h"}

SeqsUpTo(S, n) == UNION {[1..k -> S] : k \in 0..n}

InitReconcile ==
    /\ pc = "reconcile"
    /\ runs = 0
    /\ fails = 0
    /\ sheet_row2 = <<"", 0>>
    /\ sheet_header \in {h \in SeqsUpTo(Names, MaxHeaderLen) : NoDup(h)}
    /\ headers = sheet_header
    /\ sheet_rows = <<>>
    /\ change_interval_keys_local = <<>>
    /\ token = ""
    /\ tickers = <<>>
    /\ idx = 0
    /\ last = Last("init", "", NoDoc, 0, <<>>, "", {}, 0)
    /\ rec \in {Rec("new", c, NoResult, NoResult) : c \in SeqsUpTo(Names, MaxCandLen)}

ReconcileOnce ==
    /\ pc = "reconcile"
    /\ rec.phase = "new"
    /\ \E f \in BOOLEAN :
        LET r == append_new_headers(sheet_header, headers, rec.cand, f)
        IN  /\ headers' = r.headers
            /\ sheet_header' = r.sheet_header
            /\ rec' = Rec(IF r.raised THEN "raised" ELSE "once", rec.cand, r, NoResult)
    /\ UNCHANGED <<pc, runs, fails, sheet_row2, sheet_rows, change_interval_keys_local,
                   token, tickers, idx, last>>

ReconcileAgain ==
    /\ pc = "reconcile"
    /\ rec.phase = "once"
    /\ \E f \in BOOLEAN :
        LET r == append_new_headers(sheet_header, headers, rec.cand, f)
        IN  /\ headers' = r.headers
            /\ sheet_header' = r.sheet_header
            /\ rec' = Rec("twice", rec.cand, rec.r1, r)
    /\ UNCHANGED <<pc, runs, fails, sheet_row2, sheet_rows, change_interval_keys_local,
                   token, tickers, idx, last>>

NextReconcile == ReconcileOnce \/ ReconcileAgain

ReconcileSpec == InitReconcile /\ [][NextReconcile]_vars

(***************************************************************************)
(* pick_scalar_from_metric_obj on its own: a metric object, the call, and  *)
(* the cell safe_str makes of what the call returned.                      *)
(***************************************************************************)
MaxEntries == 2

EntryKeys == {"value", "current", "foo"}
EntryVals == {Num("5"), Num("9"), Str("bar"), None, Dict(<<>>)}

\* the entry lists of JSON objects: no key twice
EntryLists ==
    {e \in SeqsUpTo([k : EntryKeys, v : EntryVals], MaxEntries) :
        \A a, b \in DOMAIN e : e[a].k = e[b].k => a = b}

MetricObjs ==
    {None, Num("5"), Str("bar"), Bool("True")}
    \cup {Dict(e) : e \in EntryLists}
    \cup {List(<<>>), List(<<Num("5"), Num("9")>>), List(<<Dict(<<>>)>>)}

Picked(phase, arg, out, cell) == [phase |-> phase, arg |-> arg, out |-> out, cell |-> cell]

InitPick ==
    /\ pc = "pick"
    /\ runs = 0
    /\ fails = 0
    /\ sheet_row2 = <<"", 0>>
    /\ sheet_header = <<>>
    /\ sheet_rows = <<>>
    /\ change_interval_keys_local = <<>>
    /\ token = ""
    /\ tickers = <<>>
    /\ headers = <<>>
    /\ idx = 0
    /\ last = Last("init", "", NoDoc, 0, <<>>, "", {}, 0)
    /\ rec \in {Picked("new", x, None, "") : x \in MetricObjs}

PickScalar ==
    /\ pc = "pick"
    /\ rec.phase = "new"
    /\ LET out == pick_scalar_from_metric_obj(rec.arg)
       IN  rec' = Picked("picked", rec.arg, out, safe_str(out))
    /\ UNCHANGED <<pc, runs, fails, sheet_row2, sheet_header, sheet_rows,
                   change_interval_keys_local, token, tickers, headers, idx, last>>

NextPick == PickScalar

PickSpec == InitPick /\ [][NextPick]_vars

(***************************************************************************)
(* build_values_map_for_ticker on its own: a document, a key list passed   *)
(* as argument, and the call made under two values of the global           *)
(* change_interval_keys_local.                                             *)
(***************************************************************************)
RootMts == {None, Dict(<<>>), Str("n/a"),
            Dict(<<[k |-> "close", v |-> Dict(<<[k |-> "value", v |-> Num("5")]>>)]>>)}
DataMts == {None, Dict(<<[k |-> "close", v |-> Num("9")]>>)}
DeepMts == {None, Dict(<<[k |-> "close", v |-> Str("4")]>>)}
ChangeIntervals == {None, Str("n/a"),
                    Dict(<<[k |-> "close", v |-> Dict(<<[k |-> "value", v |-> Num("1")]>>)]>>),
                    Dict(<<[k |-> "1d", v |-> Num("2")]>>)}

MetricDocs == [root_mt : RootMts, data_mt : DataMts, deep_mt : DeepMts, ci : ChangeIntervals]

KeyLists == {<<>>, <<"1d">>, <<"1h", "1d">>}

Built(phase, x, keys, g1, g2, m1, m2) ==
    [phase |-> phase, x |-> x, keys |-> keys, g1 |-> g1, g2 |-> g2, m1 |-> m1, m2 |-> m2]

InitBuilder ==
    /\ pc = "build"
    /\ runs = 0
    /\ fails = 0
    /\ sheet_row2 = <<"", 0>>
    /\ sheet_header = <<>>
    /\ sheet_rows = <<>>
    /\ change_interval_keys_local \in KeyLists
    /\ token = ""
    /\ tickers = <<>>
    /\ headers = <<>>
    /\ idx = 0
    /\ last = Last("init", "", NoDoc, 0, <<>>, "", {}, 0)
    /\ rec \in {Built("new", x, keys, change_interval_keys_local, <<>>, EmptyMap, EmptyMap) :
                    x \in MetricDocs, keys \in KeyLists}

\* the first call, under the global as it is
BuildOnce ==
    /\ pc = "build"
    /\ rec.phase = "new"
    /\ rec' = [rec EXCEPT !.phase = "once",
                          !.m1 = build_values_map_for_ticker(MakeDoc(rec.x), rec.keys,
                                                             change_interval_keys_local)]
    /\ UNCHANGED <<pc, runs, fails, sheet_row2, sheet_header, sheet_rows,
                   change_interval_keys_local, token, tickers, headers, idx, last>>

\* the caller extends the global between two calls (line 546)
GlobalGrows ==
    /\ pc = "build"
    /\ rec.phase = "once"
    /\ \E g \in KeyLists :
        /\ IsPrefix(change_interval_keys_local, g)
        /\ change_interval_keys_local' = g
    /\ rec' = [rec EXCEPT !.phase = "between"]
    /\ UNCHANGED <<pc, runs, fails, sheet_row2, sheet_header, sheet_rows,
                   token, tickers, headers, idx, last>>

\* the second call, same document, same argument
BuildAgain ==
    /\ pc = "build"
    /\ rec.phase = "between"
    /\ rec' = [rec EXCEPT !.phase = "twice",
                          !.g2 = change_interval_keys_local,
                          !.m2 = build_values_map_for_ticker(MakeDoc(rec.x), rec.keys,
                                                             change_interval_keys_local)]
    /\ UNCHANGED <<pc, runs, fails, sheet_row2, sheet_header, sheet_rows,
                   change_interval_keys_local, token, tickers, headers, idx, last>>

NextBuilder == BuildOnce \/ GlobalGrows \/ BuildAgain

BuilderSpec == InitBuilder /\ [][NextBuilder]_vars

(***************************************************************************)
(* capture_bearer_token on its own (lines 108-135). The page's responses   *)
(* reach on_response while the browser is driven: during page.goto and     *)
(* during each page.wait_for_timeout(1000). rec holds                      *)
(*   phase   "goto" | "check" | "wait" | "done"                            *)
(*   token   token_container["token"]                                      *)
(*   seen    the Bearer tokens of the responses so far, in order           *)
(*   n       the number of responses so far                                *)
(*   now     the waits of one second made since end_time was computed      *)
(*   ret     what the function returned                                    *)
(***************************************************************************)
MaxWaits == 2
MaxResponses == 3

NoToken == "<None>"

\* the authorization header of a response's request: none, or scheme and rest
AuthHeaders == {[scheme |-> "", rest |-> ""],
                [scheme |-> "Basic", rest |-> "dXNlcg"],
                [scheme |-> "Bearer", rest |-> "tokA"],
                [scheme |-> "Bearer", rest |-> "tokB"]}

Capture(phase, tok, seen, n, now, ret) ==
    [phase |-> phase, token |-> tok, seen |-> seen, n |-> n, now |-> now, ret |-> ret]

InitCapture ==
    /\ pc = "capture"
    /\ runs = 0
    /\ fails = 0
    /\ sheet_row2 = <<"", 0>>
    /\ sheet_header = <<>>
    /\ sheet_rows = <<>>
    /\ change_interval_keys_local = <<>>
    /\ token = ""
    /\ tickers = <<>>
    /\ headers = <<>>
    /\ idx = 0
    /\ last = Last("init", "", NoDoc, 0, <<>>, "", {}, 0)
    /\ rec = Capture("goto", NoToken, <<>>, 0, 0, NoToken)

\* lines 116-123: on_response
on_response ==
    /\ pc = "capture"
    /\ rec.phase \in {"goto", "wait"}
    /\ rec.n < MaxResponses
    /\ \E auth \in AuthHeaders :
        rec' = IF auth.scheme = "Bearer"
               THEN [rec EXCEPT !.token = auth.rest, !.seen = Append(@, auth.rest),
                                !.n = @ + 1]
               ELSE [rec EXCEPT !.n = @ + 1]
    /\ UNCHANGED <<pc, runs, fails, sheet_row2, sheet_header, sheet_rows,
                   change_interval_keys_local, token, tickers, headers, idx, last>>

\* lines 126-128: page.goto returns and end_time is computed
CaptureGotoReturns ==
    /\ pc = "capture"
    /\ rec.phase = "goto"
    /\ rec' = [rec EXCEPT !.phase = "check"]
    /\ UNCHANGED <<pc, runs, fails, sheet_row2, sheet_header, sheet_rows,
                   change_interval_keys_local, token, tickers, headers, idx, last>>

\* lines 133-135: the launch or page.goto raises; the handler logs and the
\* function returns what the container holds
CaptureRaises ==
    /\ pc = "capture"
    /\ rec.phase = "goto"
    /\ rec' = [rec EXCEPT !.phase = "done", !.ret = rec.token]
    /\ UNCHANGED <<pc, runs, fails, sheet_row2, sheet_header, sheet_rows,
                   change_interval_keys_local, token, tickers, headers, idx, last>>

\* line 129: while time.time() < end_time and not token_container["token"]
CaptureCheck ==
    /\ pc = "capture"
    /\ rec.phase = "check"
    /\ rec' = IF rec.now < MaxWaits /\ rec.token = NoToken
               THEN [rec EXCEPT !.phase = "wait"]
               ELSE [rec EXCEPT !.phase = "done", !.ret = rec.token]
    /\ UNCHANGED <<pc, runs, fails, sheet_row2, sheet_header, sheet_rows,
                   change_interval_keys_local, token, tickers, headers, idx, last>>

\* line 130: page.wait_for_timeout(1000) returns
CaptureWaitReturns ==
    /\ pc = "capture"
    /\ rec.phase = "wait"
    /\ rec' = [rec EXCEPT !.phase = "check", !.now = @ + 1]
    /\ UNCHANGED <<pc, runs, fails, sheet_row2, sheet_header, sheet_rows,
                   change_interval_keys_local, token, tickers, headers, idx, last>>

NextCapture ==
    \/ on_response
    \/ CaptureGotoReturns
    \/ CaptureRaises
    \/ CaptureCheck
    \/ CaptureWaitReturns

CaptureSpec == InitCapture /\ [][NextCapture]_vars

(***************************************************************************)
(* Vocabulary of the properties.                                           *)
(***************************************************************************)
\* a step of the ticker loop is taken from here
AtTicker == pc = "loop" /\ idx <= Len(tickers)

\* data row r (a sheet row number) of rows
RowAt(rows, r) == IF r - 3 \in DOMAIN rows THEN rows[r - 3] ELSE <<>>

DataRows(rows) == 4..(Len(rows) + 3)

\* the data rows whose column A is ticker t, whatever the case
MatchRows(rows, t) ==
    {r \in DataRows(rows) : CellA(RowAt(rows, r)) # ""
                            /\ Lower(CellA(RowAt(rows, r))) = Lower(t)}

MinOf(S) == CHOOSE x \in S : \A y \in S : x <= y

NoDupTickers(rows) ==
    \A r1, r2 \in DataRows(rows) :
        (/\ CellA(RowAt(rows, r1)) # ""
         /\ Lower(CellA(RowAt(rows, r1))) = Lower(CellA(RowAt(rows, r2)))) => r1 = r2

\* the last data row whose column A is populated; the header row if none
LastPopulated(rows) ==
    LET P == {r \in DataRows(rows) : CellA(RowAt(rows, r)) # ""}
    IN  IF P = {} THEN 3 ELSE CHOOSE x \in P : \A y \in P : y <= x

ChangedRows(rows1, rows2) ==
    {r \in DataRows(rows1) \cup DataRows(rows2) : RowAt(rows1, r) # RowAt(rows2, r)}

Atts(l) == {l.atts[i] : i \in DOMAIN l.atts}

AppendKinds == {"append", "fallback_append", "minimal"}

(***************************************************************************)
(* C1. Row targeting for a present ticker: when the ticker of the step     *)
(* matches a cell of column A at row 4 or below, every row write of the    *)
(* step goes to the lowest matching row and the number of rows holding the *)
(* ticker does not grow; and no step makes two data rows hold the same     *)
(* ticker (case-insensitively) when none did before.                       *)
(***************************************************************************)
C1_RowTargeting ==
    [][AtTicker =>
        LET t == tickers[idx]
            m == MatchRows(sheet_rows, t)
        IN  /\ m # {} =>
                /\ \A a \in Atts(last') : a.row = MinOf(m)
                /\ Cardinality(MatchRows(sheet_rows', t)) <= Cardinality(m)
            /\ NoDupTickers(sheet_rows) => NoDupTickers(sheet_rows')]_vars

(***************************************************************************)
(* C2. Append position: a row that is appended (ticker not found) goes to  *)
(* the row after the last populated row of column A, never below row 4,    *)
(* never to a gap above a populated row, never onto a populated row.       *)
(***************************************************************************)
C2_AppendPosition ==
    [][AtTicker =>
        \A a \in Atts(last') :
            a.kind \in AppendKinds =>
                /\ a.row = LastPopulated(sheet_rows) + 1
                /\ a.row >= 4
                /\ \A r \in DataRows(sheet_rows) :
                       r >= a.row => RowAt(sheet_rows, r) = <<>>]_vars

\* an append that skipped the gap at row 5 and landed below row 6
C2_Witness ==
    /\ last.op = "fetched"
    /\ \E a \in Atts(last) : a.kind = "append" /\ a.ok /\ a.row = 7
    /\ RowAt(sheet_rows, 5) = <<>>
    /\ CellA(RowAt(sheet_rows, 7)) = last.ticker

(***************************************************************************)
(* C3. Frame of an upsert: one step of the ticker loop changes at most one *)
(* data row; that row holds the step's ticker afterwards and held that     *)
(* ticker or nothing before; every other row is as it was.                 *)
(***************************************************************************)
C3_Frame ==
    [][AtTicker =>
        LET t == tickers[idx]
            ch == ChangedRows(sheet_rows, sheet_rows')
        IN  /\ Cardinality(ch) <= 1
            /\ \A r \in ch :
                /\ CellA(RowAt(sheet_rows', r)) = t
                /\ \/ RowAt(sheet_rows, r) = <<>>
                   \/ Lower(Strip(CellA(RowAt(sheet_rows, r)))) = Lower(Strip(t))]_vars

\* BTC's row was overwritten for ticker btc while SOL's row stayed
C3_Witness ==
    /\ last.op = "fetched"
    /\ last.outcome = "WRITTEN"
    /\ last.row_idx = 4
    /\ CellA(RowAt(sheet_rows, 4)) = "btc"
    /\ RowAt(sheet_rows, 6) = <<"SOL", "150">>

(***************************************************************************)
(* C4. Header monotonicity: across the append_new_headers calls of the     *)
(* ticker loop the header row never gets shorter and the earlier header is *)
(* a prefix of the later one.                                              *)
(***************************************************************************)
C4_HeaderMonotone ==
    [][AtTicker => IsPrefix(sheet_header, sheet_header')]_vars

(***************************************************************************)
(* C5. Header uniqueness: the header row holds no name twice.              *)
(***************************************************************************)
C5_HeaderUnique == NoDup(sheet_header)

(***************************************************************************)
(* C7. Fallback payload: what the single retry writes, and where, when the *)
(* first row write for a ticker raised.                                    *)
(***************************************************************************)
\* a first write was issued and raised, and the retry was issued
Retried(l) == l.op = "fetched" /\ Len(l.atts) = 2

\* C7 as claimed: the retry writes the ticker and nothing else (every other
\* cell empty), to the row of the failed attempt.
C7_FallbackReduced ==
    Retried(last) =>
        /\ last.atts[2].row = last.atts[1].row
        /\ \A i \in DOMAIN last.atts[2].cells :
               last.atts[2].cells[i] = IF headers[i] = "ticker" THEN last.ticker ELSE ""

\* C7 as amended: the retry writes the row of the failed attempt again,
\* cell for cell, except that the raw_json cell holds the serialized
\* document (empty when that is longer than MAX_CELL_LENGTH), to the same
\* row.
C7_FallbackRawJson ==
    Retried(last) =>
        /\ last.atts[2].row = last.atts[1].row
        /\ ~last.atts[1].ok
        /\ DOMAIN last.atts[2].cells = DOMAIN headers
        /\ \A i \in DOMAIN headers :
               last.atts[2].cells[i] =
                   IF headers[i] = "raw_json"
                   THEN (IF StrLen(last.doc.dump) > MAX_CELL_LENGTH THEN ""
                         ELSE last.doc.dump)
                   ELSE last.atts[1].cells[i]

\* a retry that wrote price and document where the first write had failed
C7_Witness ==
    /\ Retried(last)
    /\ last.atts[2].ok
    /\ last.doc.dump = "{doc0}"
    /\ \E i \in DOMAIN headers : headers[i] = "raw_json" /\ last.atts[2].cells[i] = "{doc0}"
    /\ \E i \in DOMAIN headers : headers[i] = "asset_price" /\ last.atts[2].cells[i] = "3000"

(***************************************************************************)
(* C8. Per-ticker isolation: a step of the ticker loop, whatever store     *)
(* call raises in it, leaves the loop running with the next ticker.        *)
(***************************************************************************)
C8_Isolation ==
    [][AtTicker => pc' = "loop" /\ idx' = idx + 1 /\ tickers' = tickers]_vars

(***************************************************************************)
(* C9. Bounded retry: a step of the ticker loop issues at most two row     *)
(* writes, the second one a fallback; when both raise, the failure is      *)
(* logged, the rows of the sheet are as before and the loop goes on with   *)
(* the next ticker.                                                        *)
(***************************************************************************)
C9_BoundedRetry ==
    [][AtTicker =>
        /\ Len(last'.atts) <= 2
        /\ Len(last'.atts) = 2 =>
              /\ ~last'.atts[1].ok
              /\ last'.atts[2].kind \in {"fallback_update", "fallback_append"}
              /\ ~last'.atts[2].ok =>
                    /\ "fallback_failed" \in last'.log
                    /\ sheet_rows' = sheet_rows
                    /\ pc' = "loop" /\ idx' = idx + 1]_vars

\* both writes for the first ticker raised and the second ticker is next
C9_Witness ==
    /\ Retried(last)
    /\ ~last.atts[1].ok /\ ~last.atts[2].ok
    /\ last.outcome = "FAILED"
    /\ pc = "loop" /\ idx = 2 /\ Len(tickers) = 2

(***************************************************************************)
(* C10. Row/header alignment: every row written for a fetched ticker has   *)
(* as many cells as the header in use, cell i holds the serialized entry   *)
(* of the values map for header[i] (empty when there is none, and, by the  *)
(* oversize rule, when it is longer than MAX_CELL_LENGTH), and the header  *)
(* in use is the header row stored in the sheet at the write.              *)
(***************************************************************************)
ValuesMapOf(l, a) ==
    LET built == IF BuildRaises(l.doc) THEN EmptyMap
                 ELSE build_values_map_for_ticker(l.doc, change_interval_keys_local,
                                                  change_interval_keys_local)
        vm == MapSet(built, "ticker", Str(l.ticker))
    IN  IF a.kind \in {"fallback_update", "fallback_append"}
        THEN MapSet(vm, "raw_json",
                    Str(IF StrLen(l.doc.dump) > MAX_CELL_LENGTH THEN "" ELSE l.doc.dump))
        ELSE vm

ExpectedCell(vm, h) ==
    IF h \notin DOMAIN vm \/ vm[h].t = "none" THEN ""
    ELSE IF StrLen(vm[h].s) > MAX_CELL_LENGTH THEN ""
    ELSE vm[h].s

C10_Alignment ==
    (last.op = "fetched" /\ last.atts # <<>>) =>
        /\ \A a \in Atts(last) :
              /\ Len(a.cells) = Len(headers)
              /\ \A i \in DOMAIN headers :
                     a.cells[i] = ExpectedCell(ValuesMapOf(last, a), headers[i])
        /\ headers = sheet_header

(***************************************************************************)
(* C6. Reconcile idempotence: append_new_headers called a second time with *)
(* the same candidates on the header the first call returned returns that  *)
(* header again and issues no store write (none that succeeds, none that   *)
(* raises), so the stored header row is the one the first call left.       *)
(***************************************************************************)
C6_Idempotent ==
    rec.phase = "twice" =>
        /\ rec.r2.headers = rec.r1.headers
        /\ ~rec.r2.wrote /\ ~rec.r2.raised
        /\ rec.r2.sheet_header = rec.r1.sheet_header
        /\ sheet_header = rec.r1.sheet_header

\* the first call appended two names and wrote them, and the call was repeated
C6_Witness ==
    /\ rec.phase = "twice"
    /\ rec.r1.wrote
    /\ Len(rec.cand) = 2
    /\ Len(rec.r1.headers) = 4
    /\ headers = rec.r1.headers

(***************************************************************************)
(* C11. Fixed columns always present: whenever a row is written for a      *)
(* ticker, every name of REQUIRED_FIXED_HEADERS is in the header in use    *)
(* and in the header row of the sheet, whether this process created the    *)
(* header or found it in the sheet.                                        *)
(***************************************************************************)
C11_FixedColumns ==
    (last.op \in {"fetched", "unfetched"} /\ last.atts # <<>>) =>
        /\ Range(REQUIRED_FIXED_HEADERS) \subseteq Range(headers)
        /\ Range(REQUIRED_FIXED_HEADERS) \subseteq Range(sheet_header)

(***************************************************************************)
(* C12. The driver never stops: whatever a run did (completed, returned    *)
(* early, raised), main is in a run, or between two runs and about to      *)
(* start the next; it has never exited because of an error.                *)
(***************************************************************************)
C12_DriverNeverStops ==
    /\ pc \in {"start", "loop", "sleep"}
    /\ (pc = "sleep" /\ runs < MaxRuns) => ENABLED Sleep

(***************************************************************************)
(* C13. No credential aborts only the current run: a run that captured no  *)
(* token ends without a store call (the token cells, the header row, the   *)
(* data rows are as before and no store call has raised) and leaves the    *)
(* accumulated change-interval keys as they were; main then sleeps and the *)
(* next run can start.                                                     *)
(***************************************************************************)
C13_NoTokenFrame ==
    /\ [][(pc = "start" /\ last'.outcome = "no_token") =>
            /\ UNCHANGED <<sheet_row2, sheet_header, sheet_rows,
                           change_interval_keys_local, fails>>
            /\ pc' = "sleep"]_vars
    /\ []((last.outcome = "no_token" /\ pc = "sleep" /\ runs < MaxRuns) => ENABLED Sleep)

\* the second run captured no token; what the first run wrote and learned is there
C13_Witness ==
    /\ last.outcome = "no_token"
    /\ runs = 2
    /\ sheet_row2[1] = "tokA"
    /\ change_interval_keys_local # <<>>
    /\ \E r \in DataRows(sheet_rows) : CellA(RowAt(sheet_rows, r)) = "btc"

(***************************************************************************)
(* C14. Fetch failure downgrade: a step of the ticker loop whose fetch     *)
(* returned nothing leaves the run going with the next ticker, the header  *)
(* row and the accumulated keys as they were; the data rows are unchanged  *)
(* when the ticker has a row, and otherwise gain exactly the minimal row   *)
(* (the ticker, then empty cells up to the header's length) after the last *)
(* populated row.                                                          *)
(***************************************************************************)
\* the step taken was one of lines 525-537
UnfetchedStep(l) ==
    \/ l.op = "unfetched"
    \/ l.op = "leave" /\ l.log = {"unhandled"}

C14_FetchFailureDowngrade ==
    [][(AtTicker /\ UnfetchedStep(last')) =>
        LET t == tickers[idx]
        IN  /\ pc' = "loop" /\ idx' = idx + 1 /\ tickers' = tickers
            /\ UNCHANGED <<sheet_header, change_interval_keys_local>>
            /\ IF MatchRows(sheet_rows, t) # {}
               THEN sheet_rows' = sheet_rows
               ELSE sheet_rows' = UpdateDataRow(sheet_rows, LastPopulated(sheet_rows) + 1,
                                                minimal_row(headers, t))]_vars

(***************************************************************************)
(* C15. Scalar-picking precedence of pick_scalar_from_metric_obj: a scalar *)
(* is returned as it is; of a mapping, the value of the first of value,    *)
(* current, count, latest, v, val that is scalar, else the first scalar    *)
(* value in iteration order, else the serialized mapping; and the empty    *)
(* mapping gives None, which is written as an empty cell.                  *)
(***************************************************************************)
\* the entries of e whose value is scalar and whose key is conventional,
\* as indices into CONVENTIONAL_KEYS
ConvHits(e) ==
    {i \in DOMAIN CONVENTIONAL_KEYS :
        \E n \in DOMAIN e : e[n].k = CONVENTIONAL_KEYS[i] /\ IsScalar(e[n].v)}

ScalarAt(e) == {n \in DOMAIN e : IsScalar(e[n].v)}

C15_PickPrecedence ==
    rec.phase = "picked" =>
        LET x == rec.arg
        IN  /\ IsScalar(x) => rec.out = x
            /\ (x.t = "dict" /\ x.e = <<>>) => (rec.out = None /\ rec.cell = "")
            /\ (x.t = "dict" /\ x.e # <<>>) =>
                   IF ConvHits(x.e) # {}
                   THEN \E n \in DOMAIN x.e :
                            /\ x.e[n].k = CONVENTIONAL_KEYS[MinOf(ConvHits(x.e))]
                            /\ rec.out = x.e[n].v
                   ELSE IF ScalarAt(x.e) # {}
                   THEN rec.out = x.e[MinOf(ScalarAt(x.e))].v
                   ELSE rec.out = Str(x.s)

(***************************************************************************)
(* C16. Oversize handling: when one field of the values map (here          *)
(* asset_price) serializes to more than MAX_CELL_LENGTH characters, every  *)
(* row written for the ticker has that cell empty and every other cell     *)
(* with its serialized value, on the update and on the append path; and    *)
(* the write is issued and, the store calls returning, lands in the sheet. *)
(***************************************************************************)
OversizeDoc(l) ==
    l.op = "fetched" /\ l.doc.shape = "dict" /\ is_too_large(safe_str(l.doc.asset_price))

\* the serialized entry of vm for h, nothing blanked
NormalCell(vm, h) == IF h \in DOMAIN vm THEN safe_str(vm[h]) ELSE ""

C16_Oversize ==
    /\ [](OversizeDoc(last) =>
            \A a \in Atts(last) :
                /\ DOMAIN a.cells = DOMAIN headers
                /\ \A i \in DOMAIN headers :
                       a.cells[i] = IF headers[i] = "asset_price" THEN ""
                                    ELSE NormalCell(ValuesMapOf(last, a), headers[i]))
    /\ [][(AtTicker /\ OversizeDoc(last') /\ fails' = fails) =>
            /\ last'.outcome = "WRITTEN"
            /\ Len(last'.atts) = 1
            /\ last'.atts[1].kind \in {"update", "append"}
            /\ IsPrefix(last'.atts[1].cells, RowAt(sheet_rows', last'.atts[1].row))]_vars

\* BTC's row updated in place and a row appended for ETH, both from a
\* document with an oversize price: price cell empty, the 1d cell written
C16_Witness ==
    /\ OversizeDoc(last)
    /\ last.outcome = "WRITTEN"
    /\ \E i, k \in DOMAIN headers :
           /\ headers[i] = "asset_price"
           /\ headers[k] = CiHeader("1d")
           /\ Len(RowAt(sheet_rows, 4)) >= k /\ Len(RowAt(sheet_rows, 7)) >= k
           /\ RowAt(sheet_rows, 4)[1] = "btc"
           /\ RowAt(sheet_rows, 4)[i] = "" /\ RowAt(sheet_rows, 4)[k] = "2"
           /\ RowAt(sheet_rows, 7)[1] = "ETH"
           /\ RowAt(sheet_rows, 7)[i] = "" /\ RowAt(sheet_rows, 7)[k] = "2"

(***************************************************************************)
(* C17. Flattening determinism and purity: two calls of                    *)
(* build_values_map_for_ticker with the same document and the same         *)
(* change_interval_keys argument return the same values map, whatever the  *)
(* global key list holds at each call.                                     *)
(***************************************************************************)
C17_BuilderDeterministic ==
    rec.phase = "twice" => rec.m1 = rec.m2

(***************************************************************************)
(* C20. metric_trends source selection: the metric_trends mapping is the   *)
(* one at the document root if there is one, else the one under data, else *)
(* the first one found by the recursive search, and metric_trends_close is *)
(* the scalar picked from its close entry; only when none of these places  *)
(* holds a mapping is the value read raw from data.change_intervals, and   *)
(* it is None when that is missing or no mapping.                          *)
(***************************************************************************)
IsMapping(v) == v.t = "dict"

C20_MetricTrendsSource ==
    rec.phase = "twice" =>
        LET x == rec.x
            got == rec.m2[MtHeader("close")]
        IN  IF IsMapping(x.root_mt)
            THEN got = pick_scalar_from_metric_obj(EntryGet(x.root_mt.e, "close"))
            ELSE IF IsMapping(x.data_mt)
            THEN got = pick_scalar_from_metric_obj(EntryGet(x.data_mt.e, "close"))
            ELSE IF IsMapping(find_first_key_recursive(x))
            THEN got = pick_scalar_from_metric_obj(
                           EntryGet(find_first_key_recursive(x).e, "close"))
            ELSE IF IsMapping(x.ci)
            THEN got = EntryGet(x.ci.e, "close")
            ELSE got = None

(***************************************************************************)
(* C18. Token capture returns the first token: capture_bearer_token        *)
(* returns the token of the first response with a Bearer authorization     *)
(* header seen during the call, None when there was none, and its wait     *)
(* loop makes no more waits than the timeout allows.                       *)
(***************************************************************************)
C18_FirstToken ==
    rec.phase = "done" =>
        /\ rec.ret = IF rec.seen = <<>> THEN NoToken ELSE rec.seen[1]
        /\ rec.now <= MaxWaits

(***************************************************************************)
(* C19. The discovered-key accumulator is monotone: every step leaves      *)
(* change_interval_keys_local with its earlier value as a prefix (nothing  *)
(* removed, nothing reordered), across tickers and across runs, and the    *)
(* list never holds a key twice.                                           *)
(***************************************************************************)
C19_KeysMonotone ==
    /\ [](NoDup(change_interval_keys_local))
    /\ [][IsPrefix(change_interval_keys_local, change_interval_keys_local')]_vars

\* in the second run a document brought 1h, known since the first run, and
\* the list is as the first run left it
C19_Witness ==
    /\ runs = 2
    /\ last.op = "fetched"
    /\ gather_change_interval_keys_from_json(last.doc) = <<"1h">>
    /\ change_interval_keys_local = <<"1h", "1d">>

(***************************************************************************)
(* C21. Accumulated keys always have their columns: whenever a row is      *)
(* written for a fetched ticker, the header in use holds the column        *)
(* change_intervals_k for every key k of change_interval_keys_local, so no *)
(* change-interval value of the values map is dropped when the row is      *)
(* projected; also after a run in which a header write raised or the       *)
(* header row was read back empty.                                         *)
(***************************************************************************)
C21_KeysHaveColumns ==
    (last.op = "fetched" /\ last.atts # <<>>) =>
        \A n \in DOMAIN change_interval_keys_local :
            CiHeader(change_interval_keys_local[n]) \in Range(headers)

(***************************************************************************)
(* C22. A flattening failure still writes the row: when                    *)
(* build_values_map_for_ticker raises for a fetched document, the failure  *)
(* is logged and the loop goes on with the next ticker; the row write      *)
(* issued for the ticker carries the ticker in column A and an empty cell  *)
(* under every other header, to the ticker's row when column A has one and *)
(* after the last populated row when it has none; and, the store calls     *)
(* returning, that row is in the sheet afterwards.                         *)
(***************************************************************************)
BuildFailed(l) == l.op = "fetched" /\ BuildRaises(l.doc)

\* the ticker under the header ticker, nothing elsewhere
TickerOnly(hdrs, t) == [i \in DOMAIN hdrs |-> IF hdrs[i] = "ticker" THEN t ELSE ""]

C22_BuildFailureRow ==
    [][(AtTicker /\ BuildFailed(last')) =>
        LET t == tickers[idx]
            m == MatchRows(sheet_rows, t)
        IN  /\ "build_failed" \in last'.log
            /\ pc' = "loop" /\ idx' = idx + 1 /\ tickers' = tickers
            /\ \A a \in Atts(last') :
                   a.kind \in {"update", "append"} =>
                       /\ a.cells = TickerOnly(headers', t)
                       /\ a.cells[1] = t
                       /\ a.kind = "update" => a.row \in m
                       /\ a.kind = "append" => a.row = LastPopulated(sheet_rows) + 1
            /\ fails' = fails =>
                   /\ last'.outcome = "WRITTEN"
                   /\ Len(last'.atts) = 1
                   /\ last'.atts[1].kind = IF m # {} THEN "update" ELSE "append"
                   /\ m # {} => last'.atts[1].row = MinOf(m)
                   /\ IsPrefix(TickerOnly(headers', t),
                               RowAt(sheet_rows', last'.atts[1].row))]_vars

\* the documents of btc and ETH could not be flattened: BTC's row holds the
\* ticker alone, and so does the row appended for ETH
C22_Witness ==
    /\ BuildFailed(last)
    /\ last.outcome = "WRITTEN"
    /\ "build_failed" \in last.log
    /\ pc = "loop" /\ idx = 3
    /\ Len(headers) >= 4
    /\ RowAt(sheet_rows, 4) = TickerOnly(headers, "btc")
    /\ RowAt(sheet_rows, 6) = <<"SOL", "150">>
    /\ RowAt(sheet_rows, 7) = TickerOnly(headers, "ETH")

====
